---- MODULE Spec2Model ----
(***************************************************************************)
(* Model of the generation request lifecycle of src/src/App.tsx: the React *)
(* state of the App component, the last committed render (whose closures   *)
(* and DOM attributes the event handlers run against), the generateImage   *)
(* handler up to and after its await, and the session observer's loading   *)
(* gate.                                                                   *)
(*                                                                         *)
(* React state setters called inside a discrete DOM event handler (click,  *)
(* change) are flushed before the next event is dispatched, so those       *)
(* actions end with the render.  Setters called from a promise             *)
(* continuation or from the auth subscription are rendered later, by the   *)
(* separate action Render.                                                 *)
(***************************************************************************)
EXTENDS Integers, Sequences, FiniteSets

VARIABLES prompt, size, quality, generating, loading, generatedImages,
          view, inflight, toasts, stats, now, edits

vars == <<prompt, size, quality, generating, loading, generatedImages,
          view, inflight, toasts, stats, now, edits>>

\* ---------------------------------------------------------------- bounds
MaxCalls == 2
MaxEdits == 1
MaxTicks == 1
MaxDirect == 1

\* the clock reading when the page loads
ClockStart == 9

\* ------------------------------------------------------- input alphabets
Sizes == {"1024x1024", "1024x1792", "1792x1024"}
Qualities == {"auto", "low", "medium", "high"}

\* values typed into the prompt field: "", " ", " a ", "a b"
Prompts == {<<>>, <<" ">>, <<" ", "a", " ">>, <<"a", " ", "b">>}

\* result arrays the endpoint may resolve with
Responses == {<<>>, <<"u1">>, <<"u2", "u1">>}

\* ------------------------------------------------------ String.trim()
IsSpace(c) == c = " "

RECURSIVE TrimStart(_)
TrimStart(s) ==
  IF s # <<>> /\ IsSpace(Head(s)) THEN TrimStart(Tail(s)) ELSE s

RECURSIVE TrimEnd(_)
TrimEnd(s) ==
  IF s # <<>> /\ IsSpace(s[Len(s)]) THEN TrimEnd(SubSeq(s, 1, Len(s) - 1)) ELSE s

Trim(s) == TrimEnd(TrimStart(s))

\* ------------------------------------------------- Number.toString()
Digit(d) == CASE d = 0 -> "0" [] d = 1 -> "1" [] d = 2 -> "2" [] d = 3 -> "3"
              [] d = 4 -> "4" [] d = 5 -> "5" [] d = 6 -> "6" [] d = 7 -> "7"
              [] d = 8 -> "8" [] d = 9 -> "9"

RECURSIVE ToString(_)
ToString(n) ==
  IF n < 10 THEN <<Digit(n)>> ELSE Append(ToString(n \div 10), Digit(n % 10))

\* ------------------------------------------------ endpoint resolutions
Outcomes ==
  {[kind |-> k, data |-> <<>>] : k \in {"throw", "malformed"}}
    \cup {[kind |-> "ok", data |-> d] : d \in Responses}

\* ---------------------------------------------------------- the render
Snapshot ==
  [prompt |-> prompt, size |-> size, quality |-> quality,
   generating |-> generating, loading |-> loading]

FormRendered(v) == ~v.loading

InputsDisabled(v) == v.generating

\* the control disabled on a blank prompt only
ButtonDisabledOnBlankOnly(v) == Trim(v.prompt) = <<>>

ButtonDisabled(v) == v.generating \/ Trim(v.prompt) = <<>>

\* ----------------------------------------------------------------- Init
Init ==
  /\ prompt = <<>>
  /\ size = "1024x1024"
  /\ quality = "high"
  /\ generating = FALSE
  /\ loading = TRUE
  /\ generatedImages = <<>>
  /\ view = Snapshot
  /\ inflight = {}
  /\ toasts = [validation |-> 0, success |-> 0, failure |-> 0]
  /\ stats = [issued |-> 0, rejected |-> 0, direct |-> 0,
              succeeded |-> 0, failed |-> 0, empty |-> 0]
  /\ now = ClockStart
  /\ edits = 0

\* ------------------------------------------------------ session observer
AuthStateChanged(isLoading) ==
  /\ loading' = isLoading
  /\ UNCHANGED <<prompt, size, quality, generating, generatedImages,
                 view, inflight, toasts, stats, now, edits>>

\* ------------------------------------------------------- form controls
SetPrompt(p) ==
  /\ FormRendered(view) /\ ~InputsDisabled(view)
  /\ edits < MaxEdits
  /\ edits' = edits + 1
  /\ prompt' = p
  /\ UNCHANGED <<size, quality, generating, loading, generatedImages,
                 inflight, toasts, stats, now>>
  /\ view' = Snapshot'

SetSize(s) ==
  /\ FormRendered(view) /\ ~InputsDisabled(view)
  /\ edits < MaxEdits
  /\ edits' = edits + 1
  /\ size' = s
  /\ UNCHANGED <<prompt, quality, generating, loading, generatedImages,
                 inflight, toasts, stats, now>>
  /\ view' = Snapshot'

SetQuality(q) ==
  /\ FormRendered(view) /\ ~InputsDisabled(view)
  /\ edits < MaxEdits
  /\ edits' = edits + 1
  /\ quality' = q
  /\ UNCHANGED <<prompt, size, generating, loading, generatedImages,
                 inflight, toasts, stats, now>>
  /\ view' = Snapshot'

\* ------------------------------------- generateImage, up to its await
\* the prompt sent as typed
PayloadUntrimmed(c) ==
  [prompt |-> c.prompt, size |-> c.size, quality |-> c.quality, n |-> 1]

Payload(c) ==
  [prompt |-> Trim(c.prompt), size |-> c.size, quality |-> c.quality, n |-> 1]

NewCall(c) ==
  [call |-> stats.issued + 1,
   prompt |-> c.prompt, size |-> c.size, quality |-> c.quality,
   payload |-> Payload(c)]

\* the validation branch without its return
GenerateImageFallingThrough(c, st) ==
  /\ toasts' = IF Trim(c.prompt) = <<>>
                 THEN [toasts EXCEPT !.validation = @ + 1]
                 ELSE toasts
  /\ generating' = TRUE
  /\ inflight' = inflight \cup {NewCall(c)}
  /\ stats' = [st EXCEPT !.issued = @ + 1]

GenerateImageFrom(c, st) ==
  IF Trim(c.prompt) = <<>>
    THEN /\ toasts' = [toasts EXCEPT !.validation = @ + 1]
         /\ stats' = [st EXCEPT !.rejected = @ + 1]
         /\ UNCHANGED <<generating, inflight>>
    ELSE /\ generating' = TRUE
         /\ inflight' = inflight \cup {NewCall(c)}
         /\ stats' = [st EXCEPT !.issued = @ + 1]
         /\ UNCHANGED toasts

GenerateImage(c) == GenerateImageFrom(c, stats)

CallBudget == stats.issued + stats.rejected < MaxCalls

Click ==
  /\ FormRendered(view) /\ ~ButtonDisabled(view)
  /\ CallBudget
  /\ GenerateImage(view)
  /\ UNCHANGED <<prompt, size, quality, loading, generatedImages, now, edits>>
  /\ view' = Snapshot'

\* the onClick handler run whatever the control's disabled attribute says
Invoke ==
  /\ FormRendered(view)
  /\ CallBudget
  /\ stats.direct < MaxDirect
  /\ \E st \in {[stats EXCEPT !.direct = @ + 1]} : GenerateImageFrom(view, st)
  /\ UNCHANGED <<prompt, size, quality, loading, generatedImages, now, edits>>
  /\ view' = Snapshot'

\* ------------------------------------ generateImage, after its await
\* data[0]: indexing past the end of an array yields undefined
First(data) == IF Len(data) = 0 THEN "undefined" ELSE data[1]

\* the awaited call rejects, its result has no data, or data[0].url reads a
\* property of undefined
\* data[0]?.url: no error on an empty array
ThrowsOnRejectOnly(o) == o.kind # "ok"

Throws(o) == o.kind # "ok" \/ First(o.data) = "undefined"

NewImage(r, o, t1, t2) ==
  [id |-> ToString(t1), url |-> First(o.data), prompt |-> Trim(r.prompt),
   timestamp |-> t2, size |-> r.size, quality |-> r.quality]

\* setGeneratedImages([newImage])
PrependReplacing(img, prev) == <<img>>

\* setGeneratedImages(prev => [...prev, newImage])
PrependAtEnd(img, prev) == Append(prev, img)

Prepend(img, prev) == <<img>> \o prev

Try(r, o, t1, t2) ==
  /\ generatedImages' = Prepend(NewImage(r, o, t1, t2), generatedImages)
  /\ toasts' = [toasts EXCEPT !.success = @ + 1]

\* a catch block that swallows the error
CatchSilent == UNCHANGED <<toasts, generatedImages>>

Catch ==
  /\ toasts' = [toasts EXCEPT !.failure = @ + 1]
  /\ UNCHANGED generatedImages

\* no cleanup
FinallySkipped == UNCHANGED generating

Finally == generating' = FALSE

\* bookkeeping of how each issued call ended, by what the endpoint did
Ended(o) ==
  CASE o.kind = "ok" /\ Len(o.data) > 0 -> [stats EXCEPT !.succeeded = @ + 1]
    [] o.kind = "ok" /\ Len(o.data) = 0 -> [stats EXCEPT !.empty = @ + 1]
    [] OTHER -> [stats EXCEPT !.failed = @ + 1]

Resolve(r, o) ==
  /\ r \in inflight
  /\ inflight' = inflight \ {r}
  /\ stats' = Ended(o)
  /\ \E d \in 0..1 :
       /\ now + d <= ClockStart + MaxTicks
       /\ now' = now + d
       /\ IF Throws(o) THEN Catch ELSE Try(r, o, now, now + d)
  /\ Finally
  /\ UNCHANGED <<prompt, size, quality, loading, view, edits>>

\* --------------------------------------------------- deferred re-render
Render ==
  /\ view # Snapshot
  /\ view' = Snapshot
  /\ UNCHANGED <<prompt, size, quality, generating, loading, generatedImages,
                 inflight, toasts, stats, now, edits>>

\* ---------------------------------------------------------------- clock
Tick ==
  /\ now < ClockStart + MaxTicks
  /\ now' = now + 1
  /\ UNCHANGED <<prompt, size, quality, generating, loading, generatedImages,
                 view, inflight, toasts, stats, edits>>

Next ==
  \/ \E b \in BOOLEAN : AuthStateChanged(b)
  \/ \E p \in Prompts : SetPrompt(p)
  \/ \E s \in Sizes : SetSize(s)
  \/ \E q \in Qualities : SetQuality(q)
  \/ Click
  \/ \E r \in inflight, o \in Outcomes : Resolve(r, o)
  \/ Render
  \/ Tick

Spec == Init /\ [][Next]_vars

NextCall == Next \/ Invoke

SpecCall == Init /\ [][NextCall]_vars

\* every issued request is eventually resolved by the endpoint
FairSpec ==
  Spec /\ WF_vars(\E r \in inflight, o \in Outcomes : Resolve(r, o))

\* ======================================================== properties

\* C1: the result sequence has exactly one entry per generation call that
\* completed successfully so far; calls that failed, calls that are still
\* unresolved and rejected submissions have none.
C1_EntriesMatchSuccesses ==
  /\ Len(generatedImages) = stats.succeeded
  /\ stats.issued =
       stats.succeeded + stats.failed + stats.empty + Cardinality(inflight)

C1_Witness ==
  /\ Len(generatedImages) = 1
  /\ stats.rejected >= 1 \/ stats.failed >= 1 \/ stats.empty >= 1

\* C2: through the trigger control at most one request is outstanding at any
\* time, and a request is only started while the in-flight flag is false and
\* no earlier request is unresolved.
C2_SingleOutstanding ==
  /\ [](Cardinality(inflight) <= 1)
  /\ [][stats'.issued # stats.issued
          => ~generating /\ inflight = {} /\ generating']_vars

C2_Witness ==
  /\ Cardinality(inflight) = 1
  /\ stats.issued = 2
  /\ generating

\* C3: the in-flight flag is true exactly while an issued generation request
\* has not yet resolved.
C3_FlagIffOutstanding == generating <=> inflight # {}

C3_Witness ==
  /\ ~generating
  /\ inflight = {}
  /\ stats.issued >= 1
  /\ view.generating

\* C4: every resolution of an issued request, whatever its outcome, leaves
\* the in-flight flag false; and when issued requests eventually resolve,
\* every state with the flag true is followed by a state with the flag false.
C4_FlagEventuallyCleared ==
  /\ [][\A r \in inflight : r \notin inflight' => ~generating']_vars
  /\ generating ~> ~generating

C4_Witness ==
  /\ ~generating
  /\ stats.failed >= 1
  /\ stats.empty >= 1

\* C5: a submission whose prompt is empty after trimming issues no request,
\* emits the validation notification and leaves the result sequence and the
\* in-flight flag as they were; no issued request carries an empty prompt.
C5_BlankPromptRejected ==
  /\ [](\A r \in inflight : r.payload.prompt # <<>>)
  /\ [][(Click \/ Invoke) /\ Trim(view.prompt) = <<>>
          => /\ inflight' = inflight
             /\ stats'.issued = stats.issued
             /\ toasts'.validation = toasts.validation + 1
             /\ toasts'.success = toasts.success
             /\ toasts'.failure = toasts.failure
             /\ generatedImages' = generatedImages
             /\ generating' = generating]_vars

C5_Witness ==
  /\ stats.rejected >= 1
  /\ toasts.validation >= 1
  /\ stats.issued >= 1

\* C6: a resolution with at least one result prepends exactly one record:
\* the previous entries follow it unchanged, and it carries the first
\* returned URL and the prompt, size and quality that were sent; one success
\* notification is emitted.
C6_SuccessPrependsOne ==
  [][\A r \in inflight, o \in Outcomes :
       (o.kind = "ok" /\ Len(o.data) > 0 /\ Resolve(r, o))
         => /\ Len(generatedImages') = Len(generatedImages) + 1
            /\ Tail(generatedImages') = generatedImages
            /\ Head(generatedImages').url = o.data[1]
            /\ Head(generatedImages').prompt = r.payload.prompt
            /\ Head(generatedImages').size = r.payload.size
            /\ Head(generatedImages').quality = r.payload.quality
            /\ toasts'.success = toasts.success + 1
            /\ toasts'.failure = toasts.failure]_vars

C6_Witness ==
  /\ Len(generatedImages) = 2
  /\ generatedImages[1].url # generatedImages[2].url

\* C7: a call whose endpoint request throws leaves the result sequence as it
\* was and emits the failure notification and no success notification.
C7_FailureKeepsSequence ==
  [][\A r \in inflight, o \in Outcomes :
       (o.kind = "throw" /\ Resolve(r, o))
         => /\ generatedImages' = generatedImages
            /\ toasts'.failure = toasts.failure + 1
            /\ toasts'.success = toasts.success]_vars

C7_Witness ==
  /\ stats.failed >= 1
  /\ toasts.failure >= 1
  /\ Len(generatedImages) >= 1

C9_EmptyResultIsFailure ==
  [][\A r \in inflight, o \in Outcomes :
       (o.kind = "ok" /\ Len(o.data) = 0 /\ Resolve(r, o))
         => /\ generatedImages' = generatedImages
            /\ toasts'.failure = toasts.failure + 1
            /\ toasts'.success = toasts.success
            /\ generating' = FALSE
            /\ r \notin inflight']_vars

C9_Witness ==
  /\ stats.empty >= 1
  /\ toasts.failure >= 1
  /\ toasts.success = 0
  /\ ~generating

\* C10: the records of the result sequence have pairwise distinct ids.
C10_DistinctIds ==
  \A i, j \in 1..Len(generatedImages) :
    i # j => generatedImages[i].id # generatedImages[j].id

====
